---- MODULE Spec2Model ----
(***************************************************************************)
(* The toy stack VM of dsl_vm.py and the enumerative synthesis search of   *)
(* search.py.                                                              *)
(*                                                                         *)
(* An instruction is modelled by the list instr.split() makes of it, so    *)
(* "PUSH 1" is <<"PUSH", "1">> and "DUP" is <<"DUP">>.  A stack value is a  *)
(* tagged record: a Python int n is [tag |-> "int", val |-> n] and the      *)
(* string SENTINEL is [tag |-> "T", val |-> 0].  A random.Random is the     *)
(* list of the numbers its next _randbelow draws will be reduced from; in  *)
(* the seeded searches it is the seed it was made from and the number of   *)
(* draws made, mt giving the draws of each seed.                           *)
(***************************************************************************)
EXTENDS Integers, Sequences, FiniteSets, TLC

VARIABLES
    vm,         \* the VM object of dsl_vm.py (self), with the arguments of run
    queue,      \* search.py enumerate_programs: the deque, leftmost first
    solutions,  \* enumerate_programs: the list returned
    spc,        \* enumerate_programs: where the loop stands
    args,       \* enumerate_programs: its arguments
    popped,     \* history: the last two nodes popped, with what became of each
    clock,      \* history: number of nodes enqueued so far
    log,        \* history: the programs enqueued and the programs popped, in order
    mt,         \* random.Random(seed): the draws of the generator of each seed
    twin        \* two calls of enumerate_programs with the same arguments

vars == <<vm, queue, solutions, spc, args, popped, clock, log, mt, twin>>

---------------------------------------------------------------------------
(* dsl_vm.py: configuration                                                *)

STACK_CAP == 6
CALL_CAP == 6
BODY_MAX_TOKENS == 12
MAX_ARGS == 2
DEFAULT_MAX_STEPS == 1000

SENTINEL == [tag |-> "T", val |-> 0]

\* a Python int as a stack value
IntVal(n) == [tag |-> "int", val |-> n]

\* isinstance(v, int)
isinstance_int(v) == v.tag = "int"

\* the decimal strings the model's instructions use, with the int() of each
IntLiteral ==
    ("-2" :> -2) @@ ("-1" :> -1) @@ ("0" :> 0) @@ ("1" :> 1) @@ ("2" :> 2)
    @@ ("3" :> 3) @@ ("4" :> 4) @@ ("5" :> 5)

\* int(s): <<n>>, or <<>> where Python raises ValueError
int(s) == IF s \in DOMAIN IntLiteral THEN <<IntLiteral[s]>> ELSE <<>>

\* str(n), as the f-strings of PRIMITIVES format it
str(n) == CHOOSE s \in DOMAIN IntLiteral : IntLiteral[s] = n

\* the words op for which op.startswith("ARG"), with op[3:] of each
ArgSuffix ==
    ("ARG0" :> "0") @@ ("ARG1" :> "1") @@ ("ARG2" :> "2") @@ ("ARG-1" :> "-1")
    @@ ("ARG" :> "") @@ ("ARGS" :> "S")

startswith_ARG(op) == op \in DOMAIN ArgSuffix

ArgWord(i) == CHOOSE w \in DOMAIN ArgSuffix : ArgSuffix[w] = str(i)

PRIMITIVES ==
    << <<"DUP">>, <<"ADD">>, <<"SUB">>, <<"MUL">>, <<"PRINT">>, <<"SELECT">>, <<"EQ">> >>
    \o [i \in 1..8 |-> <<"PUSH", str(i - 3)>>]
    \o [i \in 1..MAX_ARGS |-> <<ArgWord(i - 1)>>]

---------------------------------------------------------------------------
(* random.Random, as far as the VM uses it                                 *)

\* rng.randint(a, b) on the draw at the head of the stream
randint(rng, a, b) == a + (Head(rng) % (b - a + 1))

\* rng.choice(seq) on the draw at the head of the stream
choice(rng, seq) == seq[1 + (Head(rng) % Len(seq))]

---------------------------------------------------------------------------
(* dsl_vm.py: class VM                                                     *)

EmptyLibrary == [n \in {} |-> <<>>]

\* VM.__init__
NewVM(library, rng) ==
    [ library |-> library, rng |-> rng, stack |-> <<>>, output |-> <<>>,
      frames |-> <<>>, inputs |-> <<>>, program |-> <<>>, steps |-> 0,
      max_steps |-> 0, cache |-> {}, status |-> "idle" ]

\* raise: the machine stays as it is, the run ends with the exception
Raise(m, exc) == [m EXCEPT !.status = exc]

IsVMError(status) == status \in {"StepLimit", "StackUnderflow", "CallDepth", "BadOp"}

IsException(status) == IsVMError(status) \/ status \in {"IndexError", "ValueError"}

\* list.pop() of the data stack
Pop(m) == [m EXCEPT !.stack = SubSeq(@, 1, Len(@) - 1)]

Top(m) == m.stack[Len(m.stack)]

\* VM._push with the capacity test off by one
_push_grows(m, val) ==
    IF Len(m.stack) > STACK_CAP
    THEN [m EXCEPT !.stack[Len(m.stack)] = SENTINEL]
    ELSE [m EXCEPT !.stack = Append(@, val)]

\* VM._push
_push(m, val) ==
    IF Len(m.stack) >= STACK_CAP
    THEN [m EXCEPT !.stack[Len(m.stack)] = SENTINEL]
    ELSE [m EXCEPT !.stack = Append(@, val)]

\* VM._require_stack, as a test
_require_stack(m, n) == Len(m.stack) >= n

\* the lambdas of _exec
Arith(op, a, b) ==
    CASE op = "ADD" -> a + b
      [] op = "SUB" -> a - b
      [] op = "MUL" -> a * b

\* VM._binary taking the operands in the other order
_binary_swapped(m, op) ==
    IF ~_require_stack(m, 2) THEN Raise(m, "StackUnderflow")
    ELSE LET a == Top(m)
             b == Top(Pop(m))
             m2 == Pop(Pop(m))
         IN _push(m2, IF isinstance_int(a) /\ isinstance_int(b)
                      THEN IntVal(Arith(op, a.val, b.val))
                      ELSE SENTINEL)

\* VM._binary
_binary(m, op) ==
    IF ~_require_stack(m, 2) THEN Raise(m, "StackUnderflow")
    ELSE LET b == Top(m)
             a == Top(Pop(m))
             m2 == Pop(Pop(m))
         IN _push(m2, IF isinstance_int(a) /\ isinstance_int(b)
                      THEN IntVal(Arith(op, a.val, b.val))
                      ELSE SENTINEL)

\* the body drawn with a length from 0 instead of 1
SampledBody_empty(rng) ==
    LET n == randint(rng, 0, BODY_MAX_TOKENS)
    IN [i \in 1..n |-> choice(SubSeq(rng, i + 1, Len(rng)), PRIMITIVES)]

\* VM._sample_body: the body drawn, and the machine with the draws consumed
\* and the body in _GLOBAL_BODY_CACHE
SampledBody(rng) ==
    LET n == randint(rng, 1, BODY_MAX_TOKENS)
    IN [i \in 1..n |-> choice(SubSeq(rng, i + 1, Len(rng)), PRIMITIVES)]

_sample_body(m) ==
    LET body == SampledBody(m.rng)
    IN [m EXCEPT !.rng = SubSeq(@, Len(body) + 2, Len(@)),
                 !.cache = @ \cup {body}]

\* VM._call binding the name before it tests the depth
_call_binds_first(m, fname) ==
    LET m1 == IF fname \notin DOMAIN m.library
              THEN [_sample_body(m) EXCEPT
                       !.library = (fname :> SampledBody(m.rng)) @@ m.library]
              ELSE m
    IN IF Len(m.frames) >= CALL_CAP THEN Raise(m1, "CallDepth")
       ELSE [m1 EXCEPT !.frames = Append(@, [prog |-> m1.library[fname], ip |-> 0])]

\* VM._call dropping the entry of a bound name once it is called
_call_forgets(m, fname) ==
    IF Len(m.frames) >= CALL_CAP THEN Raise(m, "CallDepth")
    ELSE IF fname \notin DOMAIN m.library
    THEN LET m1 == [_sample_body(m) EXCEPT
                       !.library = (fname :> SampledBody(m.rng)) @@ m.library]
         IN [m1 EXCEPT !.frames = Append(@, [prog |-> m1.library[fname], ip |-> 0])]
    ELSE [m EXCEPT !.frames = Append(@, [prog |-> m.library[fname], ip |-> 0]),
                   !.library = [k \in DOMAIN m.library \ {fname} |-> m.library[k]]]

\* VM._call
_call(m, fname) ==
    IF Len(m.frames) >= CALL_CAP THEN Raise(m, "CallDepth")
    ELSE LET m1 == IF fname \notin DOMAIN m.library
                   THEN [_sample_body(m) EXCEPT
                            !.library = (fname :> SampledBody(m.rng)) @@ m.library]
                   ELSE m
         IN [m1 EXCEPT !.frames = Append(@, [prog |-> m1.library[fname], ip |-> 0])]

\* the ARGk branch of VM._exec
_arg(m, op) ==
    LET idx == int(ArgSuffix[op])
    IN IF idx = <<>> THEN Raise(m, "ValueError")
       ELSE IF idx[1] >= Len(m.inputs) THEN _push(m, IntVal(0))
       ELSE IF idx[1] >= 0 THEN _push(m, IntVal(m.inputs[idx[1] + 1]))
       ELSE IF Len(m.inputs) + idx[1] >= 0
            THEN _push(m, IntVal(m.inputs[Len(m.inputs) + idx[1] + 1]))
       ELSE Raise(m, "IndexError")

\* the SELECT branch taking any condition but zero for true, the sentinel
\* included
_select_truthy(m) ==
    IF ~_require_stack(m, 3) THEN Raise(m, "StackUnderflow")
    ELSE LET b == Top(m)
             a == Top(Pop(m))
             cond == Top(Pop(Pop(m)))
         IN _push(Pop(Pop(Pop(m))), IF cond # IntVal(0) THEN a ELSE b)

\* the SELECT branch popping its top operand before it tests the depth
_select_pops_first(m) ==
    IF ~_require_stack(m, 3)
    THEN Raise(IF m.stack # <<>> THEN Pop(m) ELSE m, "StackUnderflow")
    ELSE LET b == Top(m)
             a == Top(Pop(m))
             cond == Top(Pop(Pop(m)))
         IN _push(Pop(Pop(Pop(m))),
                  IF isinstance_int(cond) /\ cond.val # 0 THEN a ELSE b)

\* the SELECT branch of VM._exec
_select(m) ==
    IF ~_require_stack(m, 3) THEN Raise(m, "StackUnderflow")
    ELSE LET b == Top(m)
             a == Top(Pop(m))
             cond == Top(Pop(Pop(m)))
         IN _push(Pop(Pop(Pop(m))),
                  IF isinstance_int(cond) /\ cond.val # 0 THEN a ELSE b)

\* the EQ branch of VM._exec
_eq(m) ==
    IF ~_require_stack(m, 2) THEN Raise(m, "StackUnderflow")
    ELSE LET b == Top(m)
             a == Top(Pop(m))
         IN _push(Pop(Pop(m)),
                  IntVal(IF isinstance_int(a) /\ isinstance_int(b) /\ a.val = b.val
                         THEN 1 ELSE 0))

\* VM._exec; parts is instr.split()
_exec(m, parts) ==
    IF parts = <<>> THEN Raise(m, "IndexError")
    ELSE LET op == parts[1] IN
      CASE op = "PUSH" ->
             IF Len(parts) < 2 THEN Raise(m, "IndexError")
             ELSE IF int(parts[2]) = <<>> THEN Raise(m, "ValueError")
             ELSE _push(m, IntVal(int(parts[2])[1]))
        [] op = "DUP" ->
             IF ~_require_stack(m, 1) THEN Raise(m, "StackUnderflow")
             ELSE _push(m, Top(m))
        [] op \in {"ADD", "SUB", "MUL"} -> _binary(m, op)
        [] op = "PRINT" ->
             IF ~_require_stack(m, 1) THEN Raise(m, "StackUnderflow")
             ELSE [m EXCEPT !.output = Append(@, Top(m))]
        [] op = "CALL" ->
             IF Len(parts) < 2 THEN Raise(m, "IndexError")
             ELSE _call(m, parts[2])
        [] startswith_ARG(op) -> _arg(m, op)
        [] op = "SELECT" -> _select(m)
        [] op = "EQ" -> _eq(m)
        [] OTHER -> Raise(m, "BadOp")

\* VM.run, its first two lines
run(m, program, inputs, max_steps) ==
    [m EXCEPT !.stack = <<>>, !.output = <<>>,
              !.frames = << [prog |-> program, ip |-> 0] >>,
              !.inputs = inputs, !.program = program, !.steps = 0,
              !.max_steps = max_steps,
              !.status = "running"]

TopFrame(m) == m.frames[Len(m.frames)]

\* the instruction the next turn of the loop of VM.run dispatches
Fetched(m) == TopFrame(m).prog[TopFrame(m).ip + 1]

\* the budget test of VM.run letting one more instruction through
AtStepLimit_late(m) == m.steps > m.max_steps

AtStepLimit(m) == m.steps >= m.max_steps

AtFrameEnd(m) == TopFrame(m).ip >= Len(TopFrame(m).prog)

\* VM.run: the loop ends and the output is returned
halt(m) == [m EXCEPT !.status = "halted"]

\* VM.run: a frame whose cursor passed its end is popped
frame_return(m) == [m EXCEPT !.frames = SubSeq(@, 1, Len(@) - 1)]

\* VM.run: fetch, advance the cursor, _exec, count the step
dispatch(m) ==
    LET instr == Fetched(m)
        m1 == [m EXCEPT !.frames[Len(m.frames)].ip = @ + 1]
        m2 == _exec(m1, instr)
    IN IF IsException(m2.status) THEN m2 ELSE [m2 EXCEPT !.steps = @ + 1]

\* one turn of the while loop of VM.run
loop_turn(m) ==
    IF m.frames = <<>> THEN halt(m)
    ELSE IF AtStepLimit(m) THEN Raise(m, "StepLimit")
    ELSE IF AtFrameEnd(m) THEN frame_return(m)
    ELSE dispatch(m)

RECURSIVE run_loop(_)
run_loop(m) == IF m.status # "running" THEN m ELSE run_loop(loop_turn(m))

---------------------------------------------------------------------------
(* Bounds of the VM runs explored                                          *)

MaxProgLen == 2      \* longest program of the exhaustive family
MaxBodyLen == 2      \* longest wildcard body the explored draws give
MaxOverflow == 2     \* most pushes beyond STACK_CAP
MaxBudget == 9       \* largest max_steps explored besides the default

\* the instructions of the exhaustive family: every opcode, and the
\* malformed texts
RunTokens ==
    { <<"DUP">>, <<"ADD">>, <<"SUB">>, <<"MUL">>, <<"PRINT">>, <<"SELECT">>,
      <<"EQ">>, <<"PUSH", "0">>, <<"PUSH", "3">>, <<"ARG0">>, <<"ARG1">>,
      <<"PUSH">>, <<"CALL">>, <<"FOO">>, <<"PUSH", "x">>, <<"ARG">>, <<"ARG-1">>,
      <<>> }

SeqsUpTo(S, n) == UNION { [1..k -> S] : k \in 0..n }

Repeat(x, n) == [i \in 1..n |-> x]

\* test_vm.py test_square_library
SquareLibrary == ("square" :> << <<"DUP">>, <<"MUL">> >>) @@ ("inc" :> << <<"PUSH", "1">>, <<"ADD">> >>)

\* a library entry that calls itself, and one that calls itself after a push
SelfLibrary == ("f" :> << <<"CALL", "f">> >>) @@ ("g" :> << <<"PUSH", "1">>, <<"CALL", "g">> >>)

\* a chain of library entries as deep as the call stack allows, the last
\* calling a name that is not bound
ChainLibrary ==
    ("c1" :> << <<"CALL", "c2">> >>) @@ ("c2" :> << <<"CALL", "c3">> >>)
    @@ ("c3" :> << <<"CALL", "c4">> >>) @@ ("c4" :> << <<"CALL", "c5">> >>)
    @@ ("c5" :> << <<"CALL", "_">> >>)

Libraries == {EmptyLibrary, SquareLibrary, SelfLibrary, ChainLibrary}

\* n literal pushes, then PRINT (test_vm.py test_sentinel_overflow)
Pushes(n) == Repeat(<<"PUSH", "0">>, n) \o << <<"PRINT">> >>

\* dsl_vm.py smoke test: f(x) = x^2 + 1
SquarePlusOne ==
    << <<"ARG0">>, <<"DUP">>, <<"MUL">>, <<"PUSH", "1">>, <<"ADD">>, <<"PRINT">> >>

\* test_vm.py test_square_library
SquareInc == << <<"PUSH", "4">>, <<"CALL", "square">>, <<"CALL", "inc">>, <<"PRINT">> >>

\* the programs run on a VM made with library lib: those of test_vm.py and
\* of the smoke test, the pushes beyond the stack cap, the calls of the
\* entries of lib
NamedPrograms(lib) ==
    IF lib = SquareLibrary
    THEN { SquareInc,
           << <<"PUSH", "2">>, <<"CALL", "square">>, <<"CALL", "square">>, <<"PRINT">> >> }
    ELSE IF lib = SelfLibrary
    THEN { << <<"CALL", "f">> >>, << <<"CALL", "g">>, <<"PRINT">> >> }
    ELSE IF lib = ChainLibrary
    THEN { << <<"CALL", "c1">> >>, << <<"CALL", "c2">>, <<"PRINT">> >> }
    ELSE { Pushes(n) : n \in 1..(STACK_CAP + MaxOverflow) }
         \cup { SquarePlusOne,
                << <<"PUSH", "1">>, <<"CALL", "_">>, <<"PRINT">> >>,
                << <<"CALL", "_">>, <<"CALL", "_">>, <<"PRINT">> >>,
                << <<"PUSH", "1">>, <<"CALL", "_">>, <<"CALL", "_">>, <<"PRINT">> >>,
                << <<"ARG0">>, <<"PUSH", "1">>, <<"PUSH", "0">>, <<"SELECT">>, <<"PRINT">> >>,
                Repeat(<<"PUSH", "0">>, STACK_CAP + 1)
                    \o << <<"PUSH", "2">>, <<"ADD">>, <<"PRINT">> >> }

\* test_vm.py test_addition, for every pair of literals and every operation
BinaryPrograms ==
    { << <<"PUSH", a>>, <<"PUSH", b>>, <<op>>, <<"PRINT">> >> :
        a \in DOMAIN IntLiteral, b \in DOMAIN IntLiteral, op \in {"ADD", "SUB", "MUL"} }

\* arithmetic on the sentinel an overflow leaves on top of the stack: as the
\* top operand, then as the one below
SentinelPrograms ==
    { Repeat(<<"PUSH", "0">>, STACK_CAP + 1)
        \o << <<op1>>, <<"PRINT">>, <<"PUSH", "2">>, <<op2>>, <<"PRINT">> >> :
        op1 \in {"ADD", "SUB", "MUL"}, op2 \in {"ADD", "SUB", "MUL"} }

\* each operation that requires values, after one or two pushes and a PRINT
UnderflowPrograms ==
    { Repeat(<<"PUSH", "3">>, k) \o << <<"PRINT">>, <<op>> >> :
        k \in 1..2, op \in {"DUP", "PRINT", "ADD", "SUB", "MUL", "EQ", "SELECT"} }

\* test_vm.py test_indicator, for every pair of literals
SelectPrograms ==
    { << <<"ARG0">>, <<"PUSH", a>>, <<"PUSH", b>>, <<"SELECT">>, <<"PRINT">> >> :
        a \in DOMAIN IntLiteral, b \in DOMAIN IntLiteral }

\* the inputs the programs of SelectPrograms are run on
SelectInputs == { <<0>>, <<3>>, <<-1>> }

\* SELECT with the sentinel as condition: an overflow leaves the sentinel on
\* top, two ADD make room above it
SentinelSelectPrograms ==
    { Repeat(<<"PUSH", "0">>, STACK_CAP + 1)
        \o << <<"ADD">>, <<"ADD">>, <<"PUSH", a>>, <<"PUSH", b>>, <<"SELECT">>, <<"PRINT">> >> :
        a \in {"1", "4"}, b \in {"0", "5"} }

InputVectors == { <<>>, <<0>>, <<3>>, <<2, 5>> }

Budgets == (0..MaxBudget) \cup {DEFAULT_MAX_STEPS}

\* the calls of run explored on a VM made with library lib: the named
\* programs under every budget and, on the empty library (the short programs
\* hold no CALL of a name), every short program and the longest pushes under
\* the default budget
Runs(lib) ==
    { [program |-> p, inputs |-> i, max_steps |-> b] :
        p \in NamedPrograms(lib), i \in InputVectors, b \in Budgets }
    \cup
    { [program |-> p, inputs |-> i, max_steps |-> DEFAULT_MAX_STEPS] :
        p \in (IF lib = EmptyLibrary THEN SeqsUpTo(RunTokens, MaxProgLen) ELSE {}),
        i \in InputVectors }
    \cup
    { [program |-> p, inputs |-> <<>>, max_steps |-> DEFAULT_MAX_STEPS] :
        p \in (IF lib = EmptyLibrary THEN BinaryPrograms \cup SentinelPrograms \cup UnderflowPrograms
                      \cup SentinelSelectPrograms
               ELSE {}) }
    \cup
    { [program |-> p, inputs |-> i, max_steps |-> DEFAULT_MAX_STEPS] :
        p \in (IF lib = EmptyLibrary THEN SelectPrograms ELSE {}), i \in SelectInputs }
    \cup
    { [program |-> Pushes(n), inputs |-> <<>>, max_steps |-> DEFAULT_MAX_STEPS] :
        n \in (IF lib = EmptyLibrary
               THEN {DEFAULT_MAX_STEPS - 2, DEFAULT_MAX_STEPS - 1} ELSE {}) }

\* the draws one _sample_body consumes, for the bodies of at most MaxBodyLen
\* tokens among those at the places idx of PRIMITIVES: the length, then one
\* draw per token
SampleDraws(idx) ==
    UNION { { <<n - 1>> \o t : t \in [1..n -> { i - 1 : i \in idx }] } : n \in 1..MaxBodyLen }

\* the places in PRIMITIVES of DUP, ADD, PRINT, PUSH 1 and ARG0
DrawnTokens == {1, 2, 5, 11, 16}

\* the draws of the longest bodies, BODY_MAX_TOKENS times the same token
LongDraws(idx) ==
    { <<BODY_MAX_TOKENS - 1>> \o Repeat(i - 1, BODY_MAX_TOKENS) : i \in idx }

\* the draws a VM run is given when it samples a body
RunDraws == SampleDraws(DrawnTokens) \cup LongDraws(DrawnTokens)

\* whether the next dispatch is a CALL of a name that is not bound, which
\* samples a body unless the call stack is full
Samples(m) ==
    /\ Fetched(m) # <<>>
    /\ Fetched(m)[1] = "CALL"
    /\ Len(Fetched(m)) >= 2
    /\ Fetched(m)[2] \notin DOMAIN m.library

---------------------------------------------------------------------------
(* search.py                                                               *)

\* the tokens of PRIMITIVES at the places idx, in the order of PRIMITIVES:
\* the vocabulary a bounded search extends programs with
Vocabulary(idx) ==
    LET F[i \in 0..Len(PRIMITIVES)] ==
            IF i = 0 THEN <<>>
            ELSE IF i \in idx THEN Append(F[i - 1], PRIMITIVES[i]) ELSE F[i - 1]
    IN F[Len(PRIMITIVES)]

\* the value run_vm returns on VMError
None == [ok |-> FALSE, out |-> <<>>]

\* run_vm: a fresh VM(rng=rng) runs program on inputs; None on VMError.  The
\* programs of the search are made of PRIMITIVES and CALL _, for which _exec
\* raises nothing but VMError.
run_vm(program, inputs, rng) ==
    LET m == run_loop(run(NewVM(EmptyLibrary, rng), program, inputs, DEFAULT_MAX_STEPS))
    IN IF m.status = "halted" THEN [ok |-> TRUE, out |-> m.output] ELSE None

\* the expected output of an example, as a list of stack values
Expected(exp) == [k \in 1..Len(exp) |-> IntVal(exp[k])]

Min(a, b) == IF a <= b THEN a ELSE b

\* any(o != e for o, e in zip(out, exp))
ZipDiffers(out, exp) == \E k \in 1..Min(Len(out), Len(exp)) : out[k] # IntVal(exp[k])

\* prefix_ok requiring the whole expected output of each example
prefix_ok_exact(program, examples, rngs) ==
    \A i \in 1..Len(examples) :
        LET out == run_vm(program, examples[i].inp, rngs[i])
        IN out.ok /\ out.out = Expected(examples[i].exp)

\* prefix_ok without the comparison of the outputs
prefix_ok_blind(program, examples, rngs) ==
    \A i \in 1..Len(examples) : run_vm(program, examples[i].inp, rngs[i]).ok

\* prefix_ok; rngs[i] is the generator made for example i
prefix_ok(program, examples, rngs) ==
    \A i \in 1..Len(examples) :
        LET out == run_vm(program, examples[i].inp, rngs[i])
        IN out.ok /\ ~ZipDiffers(out.out, examples[i].exp)

\* candidate_ok; rngs[i] is the generator made for example i
candidate_ok(program, examples, rngs) ==
    \A i \in 1..Len(examples) :
        LET out == run_vm(program, examples[i].inp, rngs[i])
        IN out.ok /\ out.out = Expected(examples[i].exp)

\* token_space of enumerate_programs
token_space(a) ==
    IF ~a.allow_wildcards THEN Vocabulary(a.vocab)
    ELSE Vocabulary(a.vocab) \o << <<"CALL", "_">> >>

HasCall(program) == \E k \in 1..Len(program) : program[k][1] = "CALL"

\* the generators random.Random(rng_master.randint(0, 2**32 - 1)) can be, as
\* far as a run of program tells them apart: a run that samples no body reads
\* no draw
Generators(program, idx) == IF HasCall(program) THEN SampleDraws(idx) ELSE { <<>> }

\* the generators of one check of program, one per example
CheckGenerators(program, a) == [1..Len(a.examples) -> Generators(program, a.vocab)]

\* what candidate_ok(prog, examples, state_rng) can return
CandidateOutcomes(program, a) ==
    { candidate_ok(program, a.examples, r) : r \in CheckGenerators(program, a) }

\* what prefix_ok(child_prog, examples, state_rng) can return
PrefixOutcomes(program, a) ==
    { prefix_ok(program, a.examples, r) : r \in CheckGenerators(program, a) }

Reverse(seq) == [k \in 1..Len(seq) |-> seq[Len(seq) + 1 - k]]

\* the children appended at the right end instead
enqueue_right(children, rest) == rest \o children

\* queue.appendleft of each child in turn
enqueue(children, rest) == Reverse(children) \o rest

\* the trim keeping the right end of the queue
trim_left(q, beam) ==
    IF beam # 0 /\ Len(q) > beam THEN SubSeq(q, Len(q) - beam + 1, Len(q)) ELSE q

\* lines 69-71: while len(queue) > beam: queue.pop(); beam None is 0 here
trim(q, beam) ==
    IF beam # 0 /\ Len(q) > beam THEN SubSeq(q, 1, beam) ELSE q

\* the length cutoff letting programs of max_tokens tokens be extended
cutoff_late(program, max_tokens) == Len(program) > max_tokens

\* the length cutoff testing one token too early
cutoff_early(program, max_tokens) == Len(program) >= max_tokens - 1

\* if len(prog) >= max_tokens: continue
cutoff(program, max_tokens) == Len(program) >= max_tokens

\* the children of prog that pass, in the order of the token space ts;
\* keep[k] is what prefix_ok returned for the k-th token
Children(prog, ts, keep) ==
    LET F[k \in 0..Len(ts)] ==
            IF k = 0 THEN <<>>
            ELSE IF keep[k] THEN Append(F[k - 1], prog \o <<ts[k]>>)
            ELSE F[k - 1]
    IN F[Len(ts)]

---------------------------------------------------------------------------
(* The search is idle while a VM run is followed step by step               *)

NoArgs == [examples |-> <<>>, max_tokens |-> 0, beam |-> 0,
           allow_wildcards |-> FALSE, vocab |-> {}]

\* nothing enqueued, nothing popped
NoLog == [enqueued |-> <<>>, tested |-> <<>>]

\* no pair of seeded calls is followed
TwinIdle == mt = <<>> /\ twin = <<>>

SearchIdle ==
    /\ queue = <<>> /\ solutions = <<>> /\ spc = "idle" /\ args = NoArgs
    /\ popped = <<>> /\ clock = 0 /\ log = NoLog
    /\ TwinIdle

searchvars == <<queue, solutions, spc, args, popped, clock, log, mt, twin>>

---------------------------------------------------------------------------
(* A VM run, one turn of the loop of VM.run at a time                      *)

VMInit ==
    /\ vm \in { NewVM(lib, <<>>) : lib \in Libraries }
    /\ SearchIdle

\* vm.run(program, inputs=inputs, max_steps=max_steps)
Run ==
    /\ vm.status = "idle"
    /\ \E r \in Runs(vm.library) : vm' = run(vm, r.program, r.inputs, r.max_steps)
    /\ UNCHANGED searchvars

\* while self.frames: false
Halt ==
    /\ vm.status = "running"
    /\ vm.frames = <<>>
    /\ vm' = halt(vm)
    /\ UNCHANGED searchvars

\* if steps >= max_steps: raise VMError("Step limit exceeded")
StepLimit ==
    /\ vm.status = "running"
    /\ vm.frames # <<>>
    /\ AtStepLimit(vm)
    /\ vm' = Raise(vm, "StepLimit")
    /\ UNCHANGED searchvars

\* if ip >= len(prog): self.frames.pop(); continue
FrameReturn ==
    /\ vm.status = "running"
    /\ vm.frames # <<>>
    /\ ~AtStepLimit(vm)
    /\ AtFrameEnd(vm)
    /\ vm' = frame_return(vm)
    /\ UNCHANGED searchvars

\* instr = prog[ip]; self.frames[-1] = (prog, ip + 1); self._exec(instr); steps += 1
Dispatch ==
    /\ vm.status = "running"
    /\ vm.frames # <<>>
    /\ ~AtStepLimit(vm)
    /\ ~AtFrameEnd(vm)
    /\ \E draws \in (IF Samples(vm) THEN RunDraws ELSE {vm.rng}) :
          vm' = dispatch([vm EXCEPT !.rng = draws])
    /\ UNCHANGED searchvars

VMNext == Run \/ Halt \/ StepLimit \/ FrameReturn \/ Dispatch

SpecVM == VMInit /\ [][VMNext]_vars

---------------------------------------------------------------------------
(* Bounds of the searches explored                                         *)

MaxTokens == 3       \* largest max_tokens, wildcards disabled
MaxWildTokens == 2   \* largest max_tokens, wildcards enabled
MaxBeam == 3         \* largest beam; 0 is beam=None

Ex(inp, exp) == [inp |-> inp, exp |-> exp]

\* the examples and vocabularies explored: f(x) = 2x with DUP, ADD, PRINT,
\* ARG0; the identity with DUP, PRINT, PUSH 3, ARG0; two examples whose
\* expected outputs differ in length with PRINT, ARG0; no example at all
Tasks ==
    { [examples |-> << Ex(<<2>>, <<4>>) >>, vocab |-> {1, 2, 5, 16}],
      [examples |-> << Ex(<<3>>, <<3>>) >>, vocab |-> {1, 5, 13, 16}],
      [examples |-> << Ex(<<1>>, <<1>>), Ex(<<2>>, <<2, 2>>) >>, vocab |-> {5, 16}],
      [examples |-> <<>>, vocab |-> {5, 16}] }

\* the examples and vocabulary explored with wildcards enabled: the identity
\* with PRINT, ARG0, the sampled bodies drawn from these two as well
WildTasks ==
    { [examples |-> << Ex(<<2>>, <<2>>) >>, vocab |-> {5, 16}] }

SearchArgs ==
    { [examples |-> t.examples, vocab |-> t.vocab, max_tokens |-> n, beam |-> b,
       allow_wildcards |-> FALSE] :
        t \in Tasks, n \in -1..MaxTokens, b \in 0..MaxBeam }
    \cup
    { [examples |-> t.examples, vocab |-> t.vocab, max_tokens |-> n, beam |-> b,
       allow_wildcards |-> TRUE] :
        t \in WildTasks, n \in -1..MaxWildTokens, b \in 0..MaxBeam }

\* the end-to-end search of f(x) = x^2 + 1, with the tokens of the program
\* of the smoke test as vocabulary
E2EExamples == << Ex(<<2>>, <<5>>), Ex(<<3>>, <<10>>) >>

E2EVocab == {1, 2, 4, 5, 11, 16}

VMIdle == vm = NewVM(EmptyLibrary, <<>>)

---------------------------------------------------------------------------
(* enumerate_programs, one pass of its loop in two steps                   *)

Node(prog, born) == [prog |-> prog, born |-> born]

\* lines 64-66
Start(a) ==
    /\ args = a
    /\ queue = << Node(<<>>, 0) >>
    /\ solutions = <<>>
    /\ spc = "while"
    /\ popped = <<>>
    /\ clock = 1
    /\ VMIdle
    /\ TwinIdle

\* the history of a search that keeps one: the empty program is enqueued
StartLog == [enqueued |-> << <<>> >>, tested |-> <<>>]

SearchInit == \E a \in SearchArgs : Start(a) /\ log = NoLog

\* the loop left as soon as a solution is recorded
Return_at_first ==
    /\ spc = "while"
    /\ (queue = <<>> \/ solutions # <<>>)
    /\ spc' = "done"
    /\ UNCHANGED <<vm, queue, solutions, args, popped, clock, log, mt, twin>>

\* line 68 false, line 85: return solutions
Return ==
    /\ spc = "while"
    /\ queue = <<>>
    /\ spc' = "done"
    /\ UNCHANGED <<vm, queue, solutions, args, popped, clock, log, mt, twin>>

\* lines 68-71: the loop goes on and the queue is trimmed to the beam
Trim ==
    /\ spc = "while"
    /\ queue # <<>>
    /\ queue' = trim(queue, args.beam)
    /\ spc' = "pop"
    /\ UNCHANGED <<vm, solutions, args, popped, clock, log, mt, twin>>

\* the history of pops with one more: the node and what became of it
Record(node, what) ==
    LET entry == [prog |-> node.prog, born |-> node.born, verdict |-> what]
    IN IF popped = <<>> THEN <<entry>> ELSE <<popped[Len(popped)], entry>>

\* the log with prog popped and the programs kids enqueued, in a search
\* that keeps the history
Logged(prog, kids) ==
    IF log = NoLog THEN NoLog
    ELSE [enqueued |-> log.enqueued \o kids, tested |-> Append(log.tested, prog)]

\* lines 72-84: pop the leftmost node, test it, extend it
PopTest ==
    /\ spc = "pop"
    /\ LET node == Head(queue)
           prog == node.prog
           rest == Tail(queue)
           ts == token_space(args)
           outcomes == [k \in 1..Len(ts) |-> PrefixOutcomes(prog \o <<ts[k]>>, args)]
       IN \E accepted \in CandidateOutcomes(prog, args) :
            IF accepted
            THEN /\ solutions' = Append(solutions, prog)
                 /\ queue' = rest
                 /\ popped' = Record(node, "solution")
                 /\ clock' = clock
                 /\ log' = Logged(prog, <<>>)
            ELSE IF cutoff(prog, args.max_tokens)
            THEN /\ solutions' = solutions
                 /\ queue' = rest
                 /\ popped' = Record(node, "cutoff")
                 /\ clock' = clock
                 /\ log' = Logged(prog, <<>>)
            ELSE \E keep \in { f \in [1..Len(ts) -> BOOLEAN] :
                                  \A k \in 1..Len(ts) : f[k] \in outcomes[k] } :
                   LET kids == Children(prog, ts, keep)
                       nodes == [k \in 1..Len(kids) |-> Node(kids[k], clock + k - 1)]
                   IN /\ queue' = enqueue(nodes, rest)
                      /\ clock' = clock + Len(kids)
                      /\ solutions' = solutions
                      /\ popped' = Record(node, "expanded")
                      /\ log' = Logged(prog, kids)
    /\ spc' = "while"
    /\ UNCHANGED <<vm, args, mt, twin>>

SearchNext == Return \/ Trim \/ PopTest

SpecSearch == SearchInit /\ [][SearchNext]_vars

\* a turn of the loop of enumerate_programs: its control moves on, from the
\* loop test to the pop, from the pop back to the test, from the test out
Turn ==
    /\ spc \in {"while", "pop"}
    /\ spc' \in {"while", "pop", "done"} \ {spc}

\* the loop of enumerate_programs is never suspended: every run of the VM it
\* makes is bounded by max_steps, so each turn ends
FairSearch == SpecSearch /\ WF_spc(Turn)

\* largest max_tokens of the searches with wildcards that keep the history
\* of the programs enqueued and popped
MaxLoggedWildTokens == 1

\* the searches that keep the history
LoggedArgs ==
    { a \in SearchArgs : a.allow_wildcards => a.max_tokens <= MaxLoggedWildTokens }

LoggedInit == \E a \in LoggedArgs : Start(a) /\ log = StartLog

SpecLogged == LoggedInit /\ [][SearchNext]_vars

\* the end-to-end search: wildcards disabled, no beam, max_tokens 6 and more;
\* it keeps no history of the programs enqueued and popped
MaxE2ETokens == 6

E2EInit ==
    \E n \in 6..MaxE2ETokens :
        /\ Start([examples |-> E2EExamples, vocab |-> E2EVocab, max_tokens |-> n,
                  beam |-> 0, allow_wildcards |-> FALSE])
        /\ log = NoLog

SpecE2E == E2EInit /\ [][SearchNext]_vars

\* a turn of the loop of VM.run
LoopTurn == Halt \/ StepLimit \/ FrameReturn \/ Dispatch

\* the loop of VM.run is never suspended; whether run is called is up to the
\* caller
FairVM == SpecVM /\ WF_vars(LoopTurn)

---------------------------------------------------------------------------
(* Two calls of enumerate_programs with the same arguments, one after the  *)
(* other, each with the generators it makes from its seed                  *)

\* the draws the generators explored are made of: 0 draws a body of one token
\* and the token DUP, 4 draws a body of five tokens and the token PRINT
RawDraws == {0, 4}

\* the generators explored repeat their draws with this period
Period == 2

\* largest max_tokens of the seeded searches
MaxSeededTokens == 2

\* seed=None
NoSeed == -1

\* a generator: the seed it was made from and the number of draws made
Generator(seed) == [seed |-> seed, pos |-> 0]

\* random.Random(seed): seeded from the entropy of the system when seed is
\* None
Random_unseeded(seed, entropy) == Generator(entropy)

Random(seed, entropy) ==
    IF seed = NoSeed THEN Generator(entropy) ELSE Generator(seed)

\* the next n draws of generator g
Drawn(g, n) == [j \in 1..n |-> mt[g.seed][((g.pos + j - 1) % Period) + 1]]

\* generator g after n draws
Skip(g, n) == [g EXCEPT !.pos = (@ + n) % Period]

\* the draws a VM run can make of its generator: a program of the search
\* samples the body of _ at most once
VMDraws == 1 + BODY_MAX_TOKENS

\* random.Random(rng.randint(0, 2**32 - 1)), before any draw of rng: the
\* draws explored are below 2**32, so randint reduces a draw to itself
Spawn(rng) == Generator(Head(Drawn(rng, 1)))

\* random.Random(rng_master.randint(0, 2**32 - 1)) for the i-th example a
\* check comes to, as the list of draws the VM is given
ExampleRngs(rng_master, n) ==
    [i \in 1..n |-> Drawn(Spawn(Skip(rng_master, i - 1)), VMDraws)]

\* the number of examples a check goes through: it returns at the first
\* example that fails; ok[i] tells whether example i passes
Processed(ok) ==
    IF \E i \in 1..Len(ok) : ~ok[i]
    THEN CHOOSE i \in 1..Len(ok) : ~ok[i] /\ \A j \in 1..(i - 1) : ok[j]
    ELSE Len(ok)

\* candidate_ok, example by example
candidate_each(program, examples, rngs) ==
    [i \in 1..Len(examples) |->
        LET out == run_vm(program, examples[i].inp, rngs[i])
        IN out.ok /\ out.out = Expected(examples[i].exp)]

\* prefix_ok, example by example
prefix_each(program, examples, rngs) ==
    [i \in 1..Len(examples) |->
        LET out == run_vm(program, examples[i].inp, rngs[i])
        IN out.ok /\ ~ZipDiffers(out.out, examples[i].exp)]

\* the library of the VM of run_vm when its run ends
bound_by(program, inputs, rng) ==
    run_loop(run(NewVM(EmptyLibrary, rng), program, inputs, DEFAULT_MAX_STEPS)).library

\* the libraries of the VM runs of one check, in order
Bindings(program, examples, rngs, n) ==
    [i \in 1..n |-> bound_by(program, examples[i].inp, rngs[i])]

\* a call of enumerate_programs that has not started: where it stands, the
\* entropy of the system when it is made, its queue and solutions, the node
\* it is extending (prog, state_rng, the place tok in the token space), and
\* the history of its pops
NotCalled(entropy) ==
    [pc |-> "idle", entropy |-> entropy, queue |-> <<>>, solutions |-> <<>>,
     prog |-> <<>>, state_rng |-> Generator(0), tok |-> 0, hist |-> <<>>]

\* lines 64-66
called(r, a) ==
    [r EXCEPT !.pc = "while",
              !.queue = << [prog |-> <<>>, rng |-> Spawn(Random(a.seed, r.entropy))] >>]

\* lines 68-78: the trim, the pop, the test of the candidate and the length
\* cutoff; hist records the node popped, what became of it and the libraries
\* of the VM runs made for it
pop(r, a) ==
    LET q == trim(r.queue, a.beam)
        node == Head(q)
        rngs == ExampleRngs(node.rng, Len(a.examples))
        used == Processed(candidate_each(node.prog, a.examples, rngs))
        entry(what) ==
            [prog |-> node.prog, rng |-> node.rng, verdict |-> what,
             bound |-> Bindings(node.prog, a.examples, rngs, used)]
    IN IF candidate_ok(node.prog, a.examples, rngs)
       THEN [r EXCEPT !.queue = Tail(q),
                      !.solutions = Append(@, node.prog),
                      !.hist = Append(@, entry("solution"))]
       ELSE IF cutoff(node.prog, a.max_tokens)
       THEN [r EXCEPT !.queue = Tail(q),
                      !.hist = Append(@, entry("cutoff"))]
       ELSE [r EXCEPT !.queue = Tail(q),
                      !.hist = Append(@, entry("expanded")),
                      !.pc = "for",
                      !.prog = node.prog,
                      !.state_rng = Skip(node.rng, used),
                      !.tok = 1]

\* lines 80-84: one token of the loop over the token space; the libraries
\* of the VM runs of prefix_ok join those recorded for the node
extend(r, a) ==
    LET ts == token_space(a)
        child_prog == r.prog \o <<ts[r.tok]>>
        rngs == ExampleRngs(r.state_rng, Len(a.examples))
        used == Processed(prefix_each(child_prog, a.examples, rngs))
        after == Skip(r.state_rng, used)
        libs == Bindings(child_prog, a.examples, rngs, used)
        kept == prefix_ok(child_prog, a.examples, rngs)
    IN [r EXCEPT !.queue = IF kept
                           THEN enqueue(<< [prog |-> child_prog, rng |-> Spawn(after)] >>, @)
                           ELSE @,
                 !.state_rng = IF kept THEN Skip(after, 1) ELSE after,
                 !.hist[Len(r.hist)].bound = @ \o libs,
                 !.tok = IF r.tok = Len(ts) THEN 0 ELSE r.tok + 1,
                 !.pc = IF r.tok = Len(ts) THEN "while" ELSE "for"]

\* the examples and vocabulary of the seeded searches: the identity with
\* PRINT, ARG0 and CALL _
SeededTasks ==
    { [examples |-> << Ex(<<1>>, <<1>>), Ex(<<2>>, <<2>>) >>, vocab |-> {5, 16}] }

\* the seeds explored; the draws of the generator of each are any of mt
Seeds == {0, NoSeed}

SeededArgs ==
    { [examples |-> t.examples, vocab |-> t.vocab, max_tokens |-> n, beam |-> b,
       allow_wildcards |-> TRUE, seed |-> sd] :
        t \in SeededTasks, n \in 1..MaxSeededTokens, b \in {0, 2},
        sd \in Seeds }

TwinInit ==
    /\ args \in SeededArgs
    /\ mt \in [RawDraws -> [1..Period -> RawDraws]]
    /\ twin \in { <<NotCalled(e1), NotCalled(e2)>> : e1 \in RawDraws, e2 \in RawDraws }
    /\ VMIdle
    /\ queue = <<>> /\ solutions = <<>> /\ spc = "idle" /\ popped = <<>> /\ clock = 0
    /\ log = NoLog

\* enumerate_programs is called; the second call is made when the first has
\* returned
TwinCall(i) ==
    /\ twin[i].pc = "idle"
    /\ i = 2 => twin[1].pc = "done"
    /\ twin' = [twin EXCEPT ![i] = called(@, args)]
    /\ UNCHANGED <<vm, queue, solutions, spc, args, popped, clock, log, mt>>

\* while queue: true; the node popped is a solution, is cut off, or is to
\* be extended
TwinPop(i) ==
    /\ twin[i].pc = "while"
    /\ twin[i].queue # <<>>
    /\ twin' = [twin EXCEPT ![i] = pop(@, args)]
    /\ UNCHANGED <<vm, queue, solutions, spc, args, popped, clock, log, mt>>

\* for tok in token_space: the next token
TwinExtend(i) ==
    /\ twin[i].pc = "for"
    /\ twin' = [twin EXCEPT ![i] = extend(@, args)]
    /\ UNCHANGED <<vm, queue, solutions, spc, args, popped, clock, log, mt>>

\* while queue: false; return solutions
TwinReturn(i) ==
    /\ twin[i].pc = "while"
    /\ twin[i].queue = <<>>
    /\ twin' = [twin EXCEPT ![i].pc = "done"]
    /\ UNCHANGED <<vm, queue, solutions, spc, args, popped, clock, log, mt>>

TwinNext ==
    \E i \in 1..2 : TwinCall(i) \/ TwinPop(i) \/ TwinExtend(i) \/ TwinReturn(i)

SpecTwin == TwinInit /\ [][TwinNext]_vars

---------------------------------------------------------------------------
(* Claims about the search                                                 *)

Programs(nodes) == { nodes[k].prog : k \in 1..Len(nodes) }

\* the run of program on example ex with generator rng ends without error
\* and its whole output is the expected one
Satisfies(program, ex, rng) ==
    LET out == run_vm(program, ex.inp, rng)
    IN out.ok /\ out.out = Expected(ex.exp)

\* C1 as stated: every run of a returned program on an example's input ends
\* without error with the expected output, whatever allow_wildcards is
C1_EveryRunSatisfies ==
    \A k \in 1..Len(solutions), i \in 1..Len(args.examples) :
        \A rng \in Generators(solutions[k], args.vocab) :
            Satisfies(solutions[k], args.examples[i], rng)

\* the run of program on example ex with generator rng ends without error,
\* emits no more values than expected, each the expected one at its place
WithinExpected(program, ex, rng) ==
    LET out == run_vm(program, ex.inp, rng)
    IN out.ok /\ Len(out.out) <= Len(ex.exp) /\ ~ZipDiffers(out.out, ex.exp)

\* C2: every candidate the prefix check accepted and enqueued has, for every
\* example, a run that ends without error, emits no more values than the
\* expected output holds, and emits the expected value at every place
C2_PrefixCheck ==
    \A k \in 1..Len(queue), i \in 1..Len(args.examples) :
        queue[k].born > 0 =>
            \E rng \in Generators(queue[k].prog, args.vocab) :
                WithinExpected(queue[k].prog, args.examples[i], rng)

\* the run of program on example ex with generator rng ends without error
\* and emits the expected value at every place that has one
Consistent(program, ex, rng) ==
    LET out == run_vm(program, ex.inp, rng)
    IN out.ok /\ ~ZipDiffers(out.out, ex.exp)

\* program has, for every example, a run that is consistent with it
PrefixConsistent(program) ==
    \A i \in 1..Len(args.examples) :
        \E rng \in Generators(program, args.vocab) :
            Consistent(program, args.examples[i], rng)

Front(seq) == SubSeq(seq, 1, Len(seq) - 1)

NewestFirst == \A j, k \in 1..Len(queue) : j < k => queue[j].born > queue[k].born

PopWithinBeam == (spc = "pop" /\ args.beam > 0) => Len(queue) <= args.beam

\* a trim keeps the leftmost beam nodes, every node it drops was enqueued
\* before every node it keeps, and the search goes on to the pop
TrimDropsOldest ==
    (spc = "while" /\ queue # <<>>) =>
        /\ spc' = "pop"
        /\ Len(queue') = (IF args.beam > 0 THEN Min(Len(queue), args.beam) ELSE Len(queue))
        /\ queue' = SubSeq(queue, 1, Len(queue'))
        /\ \A j \in 1..Len(queue'), k \in (Len(queue') + 1)..Len(queue) :
              queue[k].born < queue'[j].born
        /\ solutions' = solutions /\ popped' = popped

\* C4: with a positive beam the queue holds at most beam nodes whenever a
\* node is popped; a trim drops exactly the least recently enqueued nodes,
\* those at the right end of the queue, tests none of them and raises nothing
C4_FrontierBound == [](PopWithinBeam /\ NewestFirst) /\ [][TrimDropsOldest]_vars

C4_Witness ==
    /\ spc = "pop"
    /\ args.beam > 0
    /\ Len(queue) = args.beam
    /\ clock > Len(queue) + 3
    /\ popped # <<>>
    /\ popped[Len(popped)].verdict = "expanded"
    /\ queue[Len(queue)].born > 0

\* C5 as stated, its last part: once a solution is recorded, a node leaves
\* the queue only by being popped and tested
C5_AllProcessed ==
    [][ solutions # <<>> =>
          \A k \in 1..Len(queue) :
              \/ queue[k] \in { queue'[j] : j \in 1..Len(queue') }
              \/ spc = "pop" /\ k = 1 ]_vars

IsPrefix(s, t) == Len(s) <= Len(t) /\ s = SubSeq(t, 1, Len(s))

\* the loop goes on while the queue holds a node, whatever was found, and a
\* node leaves the queue only by being popped and tested or by the trim
LoopGoesOn ==
    /\ (spc = "while" /\ queue # <<>>) => spc' = "pop"
    /\ spc = "pop" => spc' = "while" /\ Len(popped') >= 1
    /\ spc' = "done" => queue = <<>>
    /\ IsPrefix(solutions, solutions')
    /\ (spc = "pop" /\ popped'[Len(popped')].verdict = "solution") =>
          solutions' = Append(solutions, Head(queue).prog)
    /\ \A k \in 1..Len(queue) :
          \/ queue[k] \in { queue'[j] : j \in 1..Len(queue') }
          \/ spc = "pop" /\ k = 1
          \/ spc = "while" /\ args.beam > 0 /\ k > args.beam

\* C5 amended: the search ends, exactly when the queue is empty; it does not
\* stop at the first solution: the loop goes on while the queue holds a node
\* and every solution found is returned; a node in the queue is popped and
\* tested unless the beam trim drops it first
C5_Termination ==
    /\ <>(spc = "done")
    /\ [](spc = "done" => queue = <<>>)
    /\ [][LoopGoesOn]_vars

\* the search has ended with two solutions and a node tested after one
C5_Witness ==
    /\ spc = "done"
    /\ Len(solutions) >= 2
    /\ Len(popped) = 2
    /\ popped[1].verdict = "solution"
    /\ popped[2].verdict # "solution"

Target == SquarePlusOne

\* C6: with examples [2]->[5] and [3]->[10], wildcards disabled, max_tokens
\* at least 6 and no beam, the solutions returned include [ARG0, DUP, MUL,
\* PUSH 1, ADD, PRINT], whose runs on [2] and [3] output [5] and [10]
C6_EndToEnd ==
    /\ run_vm(Target, <<2>>, <<>>) = [ok |-> TRUE, out |-> <<IntVal(5)>>]
    /\ run_vm(Target, <<3>>, <<>>) = [ok |-> TRUE, out |-> <<IntVal(10)>>]
    /\ spc = "done" => \E k \in 1..Len(solutions) : solutions[k] = Target

C6_Witness ==
    /\ spc = "done"
    /\ args.examples = E2EExamples
    /\ args.max_tokens >= 6
    /\ \E k \in 1..Len(solutions) : solutions[k] = Target

\* C7 as stated: the programs are popped in non-decreasing length
C7_BreadthFirst ==
    Len(popped) = 2 => Len(popped[1].prog) <= Len(popped[2].prog)

\* C7 amended: the search is depth-first: the node popped is the most
\* recently enqueued node of the queue, so the children of a node are popped
\* before the nodes that were in the queue with it, and a popped program is
\* at most one token longer than the one popped before it
C7_DepthFirst ==
    /\ NewestFirst
    /\ Len(popped) = 2 => Len(popped[2].prog) <= Len(popped[1].prog) + 1
    /\ (Len(popped) = 2 /\ popped[1].verdict = "expanded" /\ popped[2].born > popped[1].born)
          => popped[2].prog = popped[1].prog \o <<popped[2].prog[Len(popped[2].prog)]>>

\* a child has just been popped while an older and shorter node waits
C7_Witness ==
    /\ Len(popped) = 2
    /\ popped[1].verdict = "expanded"
    /\ Front(popped[2].prog) = popped[1].prog
    /\ \E k \in 1..Len(queue) : Len(queue[k].prog) < Len(popped[2].prog)

\* the pops of the second call so far are those the first call began with:
\* the same nodes with the same verdicts and the same libraries in the same
\* VM runs, as far as the second call has come with its last node
SamePops ==
    /\ Len(twin[2].hist) <= Len(twin[1].hist)
    /\ \A k \in 1..Len(twin[2].hist) :
          /\ twin[2].hist[k].prog = twin[1].hist[k].prog
          /\ twin[2].hist[k].rng = twin[1].hist[k].rng
          /\ twin[2].hist[k].verdict = twin[1].hist[k].verdict
          /\ IsPrefix(twin[2].hist[k].bound, twin[1].hist[k].bound)
          /\ (k < Len(twin[2].hist) \/ twin[2].pc # "for") =>
                twin[2].hist[k] = twin[1].hist[k]

\* the second call has returned what the first returned, after the same pops
SameResult ==
    twin[2].pc = "done" =>
        /\ twin[2].solutions = twin[1].solutions
        /\ twin[2].hist = twin[1].hist

SatisfiesAll(program) ==
    \A i \in 1..Len(args.examples) : Satisfies(program, args.examples[i], <<>>)

\* program satisfies every example and none of its proper prefixes does
PrefixMinimal(program) ==
    /\ SatisfiesAll(program)
    /\ \A k \in 0..(Len(program) - 1) : ~SatisfiesAll(SubSeq(program, 1, k))

\* the programs of at most max_tokens tokens over the vocabulary searched
Candidates ==
    SeqsUpTo({ token_space(args)[k] : k \in 1..Len(token_space(args)) }, args.max_tokens)

\* C19: with wildcards disabled and no beam, the search returns every
\* program of at most max_tokens tokens that satisfies all examples and has
\* no proper prefix that satisfies them all
C19_PruningLossless ==
    (spc = "done" /\ ~args.allow_wildcards /\ args.beam = 0) =>
        \A p \in Candidates :
            PrefixMinimal(p) => \E k \in 1..Len(solutions) : solutions[k] = p

\* a search without wildcards and without beam has returned several
\* solutions, one of them of max_tokens tokens, longer than another
C19_Witness ==
    /\ spc = "done" /\ ~args.allow_wildcards /\ args.beam = 0
    /\ args.max_tokens >= 3
    /\ \E j, k \in 1..Len(solutions) :
          /\ Len(solutions[j]) = args.max_tokens
          /\ Len(solutions[k]) < args.max_tokens
          /\ PrefixMinimal(solutions[j]) /\ PrefixMinimal(solutions[k])

NoDuplicates(seq) == \A j, k \in 1..Len(seq) : j # k => seq[j] # seq[k]

\* each program is enqueued at most once and popped, to be tested, at most
\* once, and only programs that were enqueued are popped
OnceEach ==
    /\ NoDuplicates(log.enqueued)
    /\ NoDuplicates(log.tested)
    /\ \A k \in 1..Len(log.tested) :
          \E j \in 1..Len(log.enqueued) : log.enqueued[j] = log.tested[k]

\* the solutions are distinct, each was popped, and none is a proper prefix
\* of another
SolutionsApart ==
    /\ NoDuplicates(solutions)
    /\ \A k \in 1..Len(solutions) :
          \E j \in 1..Len(log.tested) : log.tested[j] = solutions[k]
    /\ \A j, k \in 1..Len(solutions) :
          j # k => ~IsPrefix(solutions[j], solutions[k])

\* every program enqueued or returned has at most bound tokens
LengthWithin(bound) ==
    /\ \A k \in 1..Len(log.enqueued) : Len(log.enqueued[k]) <= bound
    /\ \A k \in 1..Len(solutions) : Len(solutions[k]) <= bound

\* C20 as stated: in any search each program is enqueued and tested at most
\* once, every program enqueued or returned has at most max_tokens tokens,
\* the list returned has no duplicates and no solution is a proper prefix of
\* another
C20_ResultShape_AnyBudget ==
    OnceEach /\ SolutionsApart /\ LengthWithin(args.max_tokens)

\* C20 amended: each program is enqueued and tested at most once, the list
\* returned has no duplicates, no solution is a proper prefix of another,
\* and every program enqueued or returned has at most max_tokens tokens when
\* max_tokens is not negative; the empty program is enqueued and tested
\* whatever max_tokens is
C20_ResultShape ==
    /\ OnceEach
    /\ SolutionsApart
    /\ LengthWithin(IF args.max_tokens >= 0 THEN args.max_tokens ELSE 0)

\* a search has returned several solutions after popping more programs than
\* it returned, the last enqueued being of max_tokens tokens
C20_Witness ==
    /\ spc = "done"
    /\ Len(solutions) >= 2
    /\ Len(log.tested) > Len(solutions) + 2
    /\ Len(log.enqueued[Len(log.enqueued)]) = args.max_tokens

---------------------------------------------------------------------------
(* Claims about the VM                                                     *)

Finished == vm.status \notin {"idle", "running"}

\* the next turn of the loop dispatches an instruction
Dispatching ==
    /\ vm.status = "running"
    /\ vm.frames # <<>>
    /\ ~AtStepLimit(vm)
    /\ ~AtFrameEnd(vm)

\* the instruction about to be dispatched pushes without popping: PUSH n, DUP, ARGk
FetchedPushes ==
    /\ Dispatching
    /\ Fetched(vm) # <<>>
    /\ \/ Fetched(vm)[1] = "PUSH" /\ Len(Fetched(vm)) >= 2 /\ int(Fetched(vm)[2]) # <<>>
       \/ Fetched(vm)[1] = "DUP"
       \/ Fetched(vm)[1] \in {"ARG0", "ARG1", "ARG2"}

StackBounded == Len(vm.stack) <= STACK_CAP

\* a push onto a full stack does not fail, keeps the length and puts the
\* sentinel on top, the rest of the stack as it was
FullPush ==
    (FetchedPushes /\ Len(vm.stack) = STACK_CAP) =>
        /\ vm'.status = "running"
        /\ vm'.stack = [vm.stack EXCEPT ![STACK_CAP] = SENTINEL]
        /\ vm'.output = vm.output

\* the program run is n literal pushes followed by PRINT, for some n > STACK_CAP
IsOverflowRun ==
    /\ Len(vm.program) > STACK_CAP + 1
    /\ vm.program = Pushes(Len(vm.program) - 1)

\* C8 as stated, for the runs under the default step budget: n > STACK_CAP
\* literal pushes followed by PRINT end without error with output [SENTINEL]
C8_OverflowRunAnyLength ==
    (Finished /\ IsOverflowRun /\ vm.max_steps = DEFAULT_MAX_STEPS) =>
        (vm.status = "halted" /\ vm.output = <<SENTINEL>>)

\* how the run of n > STACK_CAP literal pushes and a PRINT ends
C8_OverflowRun ==
    (Finished /\ IsOverflowRun) =>
        IF Len(vm.program) < vm.max_steps
        THEN vm.status = "halted" /\ vm.output = <<SENTINEL>>
        ELSE vm.status = "StepLimit"

\* C8 amended: the data stack never holds more than STACK_CAP values; a push
\* (PUSH, DUP, ARGk) onto a full stack does not fail, leaves the length
\* unchanged and overwrites only the top with the sentinel; n > STACK_CAP
\* literal pushes followed by PRINT end without error with output [SENTINEL]
\* when n + 1 < max_steps, and with the step-limit error otherwise
C8_SoftStackCap == [](StackBounded /\ C8_OverflowRun) /\ [][FullPush]_vars

C8_Witness ==
    /\ vm.status = "halted"
    /\ vm.program = Pushes(STACK_CAP + 1)
    /\ vm.output = <<SENTINEL>>
    /\ Len(vm.stack) = STACK_CAP

\* the instruction about to be dispatched is CALL name
FetchedCall ==
    /\ Dispatching
    /\ Fetched(vm) # <<>>
    /\ Fetched(vm)[1] = "CALL"
    /\ Len(Fetched(vm)) >= 2

FramesBounded == Len(vm.frames) <= CALL_CAP

\* a CALL at capacity fails with the call-depth error and binds nothing
CallAtCap ==
    (FetchedCall /\ Len(vm.frames) >= CALL_CAP) =>
        /\ vm'.status = "CallDepth"
        /\ vm'.library = vm.library
        /\ vm'.cache = vm.cache
        /\ Len(vm'.frames) = Len(vm.frames)

\* the run of [CALL f] with f bound to [CALL f]
IsSelfCallRun ==
    /\ vm.program = << <<"CALL", "f">> >>
    /\ "f" \in DOMAIN vm.library
    /\ vm.library["f"] = << <<"CALL", "f">> >>

SelfCallEnds ==
    (Finished /\ IsSelfCallRun) =>
        /\ vm.status \in {"CallDepth", "StepLimit"}
        /\ (vm.max_steps >= CALL_CAP => vm.status = "CallDepth")

\* C9: the call stack never holds more than CALL_CAP frames; a CALL dispatched
\* with CALL_CAP frames on the call stack fails with the call-depth error
\* before any library entry is bound; the run of a library entry that calls
\* itself ends with the call-depth error (the step-limit error when max_steps
\* is below CALL_CAP), never halting normally
C9_CallStackCap == [](FramesBounded /\ SelfCallEnds) /\ [][CallAtCap]_vars

C9_Witness ==
    /\ vm.status = "CallDepth"
    /\ vm.program = << <<"CALL", "c1">> >>
    /\ Len(vm.frames) = CALL_CAP
    /\ Fetched([vm EXCEPT !.frames[CALL_CAP].ip = @ - 1]) = <<"CALL", "_">>
    /\ "_" \notin DOMAIN vm.library

\* the instruction about to be dispatched is ADD, SUB or MUL
FetchedBinary ==
    /\ Dispatching
    /\ Fetched(vm) # <<>>
    /\ Fetched(vm)[1] \in {"ADD", "SUB", "MUL"}

\* the value the operation named op makes of a (below) and b (top)
BinaryResult(op, a, b) ==
    IF a.tag = "int" /\ b.tag = "int"
    THEN IntVal(IF op = "ADD" THEN a.val + b.val
                ELSE IF op = "SUB" THEN a.val - b.val ELSE a.val * b.val)
    ELSE SENTINEL

\* ADD, SUB, MUL on at least two values pop b then a and push the result,
\* the sentinel when an operand is the sentinel, without raising
BinaryStep ==
    (FetchedBinary /\ Len(vm.stack) >= 2) =>
        LET n == Len(vm.stack)
        IN /\ vm'.status = "running"
           /\ vm'.stack = SubSeq(vm.stack, 1, n - 2)
                  \o << BinaryResult(Fetched(vm)[1], vm.stack[n - 1], vm.stack[n]) >>
           /\ (SENTINEL \in {vm.stack[n - 1], vm.stack[n]}) =>
                  vm'.stack[n - 1] = SENTINEL
           /\ vm'.output = vm.output

\* the run of PUSH a; PUSH b; op; PRINT outputs [a op b]
BinaryRun ==
    (Finished /\ vm.program \in BinaryPrograms) =>
        LET a == IntLiteral[vm.program[1][2]]
            b == IntLiteral[vm.program[2][2]]
            op == vm.program[3][1]
        IN /\ vm.status = "halted"
           /\ vm.output = << IntVal(IF op = "ADD" THEN a + b
                                    ELSE IF op = "SUB" THEN a - b ELSE a * b) >>

\* C11: ADD, SUB and MUL on at least two values pop b (top) then a and push
\* a+b, a-b or a*b when both are integers and the sentinel, without raising,
\* when either is the sentinel; PUSH a; PUSH b; op; PRINT outputs [a op b]
C11_BinaryArithmetic == []BinaryRun /\ [][BinaryStep]_vars

\* SUB has just given the sentinel for the sentinel below an integer
C11_Witness ==
    /\ vm.status = "halted"
    /\ vm.program \in SentinelPrograms
    /\ vm.program[STACK_CAP + 5][1] = "SUB"
    /\ vm.output = <<SENTINEL, SENTINEL>>

Range(seq) == { seq[k] : k \in 1..Len(seq) }

\* a CALL below the call-stack cap binds the name when it is not bound, to a
\* body of 1 to BODY_MAX_TOKENS primitives, and touches no other entry
CallBinds ==
    (FetchedCall /\ Len(vm.frames) < CALL_CAP) =>
        LET name == Fetched(vm)[2]
        IN IF name \in DOMAIN vm.library
           THEN vm'.library = vm.library
           ELSE /\ DOMAIN vm'.library = DOMAIN vm.library \cup {name}
                /\ \A k \in DOMAIN vm.library : vm'.library[k] = vm.library[k]
                /\ Len(vm'.library[name]) \in 1..BODY_MAX_TOKENS
                /\ Range(vm'.library[name]) \subseteq Range(PRIMITIVES)

\* C12: a CALL of an unbound name with the call stack below capacity adds
\* exactly one library entry, for that name, leaves the existing entries
\* unchanged, and the new body has 1 to BODY_MAX_TOKENS tokens, each a member
\* of PRIMITIVES; a CALL of a bound name adds no entry
C12_WildcardBinding == [][CallBinds]_vars

\* a body of BODY_MAX_TOKENS tokens was bound in a library that held entries
C12_Witness ==
    /\ vm.status = "running"
    /\ "_" \in DOMAIN vm.library
    /\ "c1" \in DOMAIN vm.library
    /\ Len(vm.library["_"]) = BODY_MAX_TOKENS
    /\ TopFrame(vm).prog = vm.library["_"]
    /\ TopFrame(vm).ip = 0

\* during a run no library entry is changed or removed
BindingsKept ==
    vm.status = "running" =>
        \A k \in DOMAIN vm.library :
            k \in DOMAIN vm'.library /\ vm'.library[k] = vm.library[k]

\* a CALL of a bound name below the cap pushes a frame for the body bound
BoundCallRunsBody ==
    (FetchedCall /\ Len(vm.frames) < CALL_CAP /\ Fetched(vm)[2] \in DOMAIN vm.library) =>
        /\ vm'.status = "running"
        /\ Len(vm'.frames) = Len(vm.frames) + 1
        /\ TopFrame(vm') = [prog |-> vm.library[Fetched(vm)[2]], ip |-> 0]
        /\ vm'.stack = vm.stack

\* test_square_library: the run outputs [17], and ends without error under
\* the default budget
SquareIncRun ==
    (Finished /\ vm.program = SquareInc /\ DOMAIN vm.library = {"square", "inc"}) =>
        /\ vm.status = "halted" => vm.output = <<IntVal(17)>>
        /\ vm.max_steps = DEFAULT_MAX_STEPS => vm.status = "halted"

\* C13: once a name is bound, pre-seeded or by a wildcard call, its body is
\* never changed or removed for the rest of the run, and every later CALL of
\* the name pushes a frame for that body, whatever the stack holds; with
\* library {square, inc} the program [PUSH 4, CALL square, CALL inc, PRINT]
\* outputs [17]
C13_BindingRatchet == []SquareIncRun /\ [][BindingsKept /\ BoundCallRunsBody]_vars

\* the second CALL _ of a run has just pushed the body the first one bound,
\* on a stack the first call changed
C13_Witness ==
    /\ vm.status = "running"
    /\ vm.program = << <<"PUSH", "1">>, <<"CALL", "_">>, <<"CALL", "_">>, <<"PRINT">> >>
    /\ Len(vm.frames) = 2
    /\ vm.frames[1].ip = 3
    /\ vm.frames[2] = [prog |-> vm.library["_"], ip |-> 0]
    /\ vm.stack # <<IntVal(1)>>

\* C14: every failure of a run is a VMError, and an unrecognized opcode or an
\* instruction with its operand missing fails with the bad-opcode error
C14_TypedErrors ==
    (Finished /\ vm.status # "halted") =>
        /\ IsVMError(vm.status)
        /\ (vm.status \notin {"StepLimit", "StackUnderflow", "CallDepth"}) =>
               vm.status = "BadOp"

\* the number of values the operation op requires on the stack
Required(op) ==
    IF op \in {"DUP", "PRINT"} THEN 1
    ELSE IF op \in {"ADD", "SUB", "MUL", "EQ"} THEN 2
    ELSE IF op = "SELECT" THEN 3 ELSE 0

\* the instruction about to be dispatched requires more values than the
\* stack holds
FetchedUnderflows ==
    /\ Dispatching
    /\ Fetched(vm) # <<>>
    /\ Len(vm.stack) < Required(Fetched(vm)[1])

\* an operation on too few values fails with the stack-underflow error and
\* leaves the stack, the output and the library as they were; no other step
\* ends with that error
UnderflowStep ==
    /\ FetchedUnderflows => vm'.status = "StackUnderflow"
    /\ (vm.status = "running" /\ vm'.status = "StackUnderflow") =>
          /\ FetchedUnderflows
          /\ vm'.stack = vm.stack
          /\ vm'.output = vm.output
          /\ vm'.library = vm.library

\* C15: DUP and PRINT on fewer than 1 value, ADD, SUB, MUL, EQ on fewer than
\* 2 and SELECT on fewer than 3 fail with the stack-underflow error, and at
\* the failure the data stack, the output and the library are as they were
\* before the failing instruction
C15_UnderflowKeepsState == [][UnderflowStep]_vars

\* SELECT has failed on two values after an output was made
C15_Witness ==
    /\ vm.status = "StackUnderflow"
    /\ vm.program = << <<"PUSH", "3">>, <<"PUSH", "3">>, <<"PRINT">>, <<"SELECT">> >>
    /\ vm.stack = <<IntVal(3), IntVal(3)>>
    /\ vm.output = <<IntVal(3)>>

\* the instruction about to be dispatched is SELECT, on three values or more
FetchedSelect ==
    /\ Dispatching
    /\ Fetched(vm) # <<>>
    /\ Fetched(vm)[1] = "SELECT"
    /\ Len(vm.stack) >= 3

\* SELECT pops b, a and cond and pushes a when cond is an integer other than
\* zero, b when cond is zero or the sentinel: the stack is two shorter
SelectStep ==
    FetchedSelect =>
        LET n == Len(vm.stack)
            b == vm.stack[n]
            a == vm.stack[n - 1]
            cond == vm.stack[n - 2]
        IN /\ vm'.status = "running"
           /\ Len(vm'.stack) = n - 2
           /\ SubSeq(vm'.stack, 1, n - 3) = SubSeq(vm.stack, 1, n - 3)
           /\ (cond.tag = "int" /\ cond.val # 0) => vm'.stack[n - 2] = a
           /\ (cond = IntVal(0) \/ cond = SENTINEL) => vm'.stack[n - 2] = b
           /\ vm'.output = vm.output

\* the run of ARG0; PUSH a; PUSH b; SELECT; PRINT on input [x] outputs [a]
\* when x is not 0 and [b] when x is 0
SelectRun ==
    (Finished /\ vm.program \in SelectPrograms /\ Len(vm.inputs) >= 1
              /\ vm.max_steps = DEFAULT_MAX_STEPS) =>
        LET a == IntLiteral[vm.program[2][2]]
            b == IntLiteral[vm.program[3][2]]
            x == vm.inputs[1]
        IN /\ vm.status = "halted"
           /\ vm.output = << IntVal(IF x # 0 THEN a ELSE b) >>

\* C18: SELECT on at least three values pops b, a, then cond and pushes a
\* when cond is a nonzero integer and b when cond is zero or the sentinel, a
\* net shrink of two; ARG0, PUSH a, PUSH b, SELECT, PRINT on input [x]
\* outputs [a] when x is not 0 and [b] when x is 0
C18_Select == []SelectRun /\ [][SelectStep]_vars

\* SELECT has taken b on the sentinel as condition, and the run has printed it
C18_Witness ==
    /\ vm.status = "halted"
    /\ vm.program \in SentinelSelectPrograms
    /\ vm.program[STACK_CAP + 4] = <<"PUSH", "4">>
    /\ vm.output = <<IntVal(IntLiteral[vm.program[STACK_CAP + 5][2]])>>
    /\ Len(vm.stack) = STACK_CAP - 2

\* a run of [PUSH 1, CALL _, PRINT] with the default budget, on a machine
\* whose library was empty, has ended
WildcardRunEnded ==
    /\ Finished
    /\ vm.program = << <<"PUSH", "1">>, <<"CALL", "_">>, <<"PRINT">> >>
    /\ vm.max_steps = DEFAULT_MAX_STEPS
    /\ DOMAIN vm.library \subseteq {"_"}

\* C17: whatever body is sampled, the run of [PUSH 1, CALL _, PRINT] on an
\* empty library ends without error, with one entry in the library and with
\* the sentinel or an integer of -2..5 as last output
C17_WildcardCall ==
    WildcardRunEnded =>
        /\ vm.status = "halted"
        /\ Cardinality(DOMAIN vm.library) = 1
        /\ vm.output # <<>>
        /\ vm.output[Len(vm.output)] \in {SENTINEL} \cup { IntVal(n) : n \in -2..5 }

\* instructions dispatched so far: those counted, and the one that raised
Dispatched ==
    IF vm.status \in {"StackUnderflow", "CallDepth", "BadOp", "IndexError", "ValueError"}
    THEN vm.steps + 1 ELSE vm.steps

WithinBudget == vm.status # "idle" => Dispatched <= vm.max_steps

\* the run has halted normally exactly when the loop found the call stack empty
HaltedIffNoFrames ==
    /\ vm.status = "halted" => vm.frames = <<>>
    /\ (vm.status # "idle" /\ vm.frames = <<>>) => vm.status \in {"running", "halted"}

HaltsOnEmpty == (vm.status = "running" /\ vm.frames = <<>>) => vm'.status = "halted"

FailsAtBudget ==
    (vm.status = "running" /\ vm.frames # <<>> /\ vm.steps >= vm.max_steps) =>
        (vm'.status = "StepLimit" /\ vm'.steps = vm.steps)

ReturnIsFree ==
    (vm.status = "running" /\ Len(vm'.frames) < Len(vm.frames)) =>
        (vm'.steps = vm.steps /\ vm'.status = "running")

\* C10: every run, once started, ends; it never dispatches more than max_steps instructions;
\* it halts normally exactly when the call stack is empty; it fails with the
\* step-limit error whenever the count has reached max_steps with a frame
\* still on the call stack; popping a frame counts no instruction
C10_StepBudget ==
    /\ [](WithinBudget /\ HaltedIffNoFrames)
    /\ [][HaltsOnEmpty /\ FailsAtBudget /\ ReturnIsFree]_vars
    /\ (vm.status = "running") ~> Finished

C10_Witness ==
    /\ vm.status = "StepLimit"
    /\ vm.steps = vm.max_steps
    /\ vm.max_steps > 0
    /\ AtFrameEnd(vm)
    /\ Len(vm.frames) = 1

====
